---- MODULE Spec2Model ----
(***************************************************************************)
(* A model of seoul-apt-rank (src/apt_rank.py): the collection pipeline    *)
(* collect_and_save_data (month window, task list, fetch fan-out, XML      *)
(* parsing, grouping), the two CSV artifacts it overwrites, and the Flask  *)
(* routes that start runs (/update) and read the artifacts (/, /api/data,  *)
(* /api/history).                                                          *)
(*                                                                         *)
(* Five specifications share the module.  Each one drives one part of the  *)
(* program and pins the variables of the other parts to their idle value:  *)
(*   SpecPlanner     the month window and task list (lines 103-113)        *)
(*   SpecParser      parse_xml_to_df (lines 54-81)                         *)
(*   SpecAggregator  analyze_data / get_price_tier (lines 83-99)           *)
(*   SpecRun         one whole collect_and_save_data call (lines 101-136)  *)
(*   Spec            the server: /update threads, the files, the readers   *)
(*                                                                         *)
(* Text is modelled as a sequence of one-character strings, so that        *)
(* strip, replace, zfill, int(), float() and string comparison are         *)
(* computed rather than assumed.  Python's None is the value None below.   *)
(* A float is modelled as an integer number of hundredths.                 *)
(***************************************************************************)
EXTENDS Integers, Sequences, FiniteSets, TLC

VARIABLES
    \* --- SpecPlanner: locals of collect_and_save_data, lines 103-113
    end_date, months, tasks,
    \* --- SpecParser: parse_xml_to_df's arguments and return value
    parser_pc, xml_data, district_name, parsed,
    \* --- SpecAggregator: analyze_data's argument and return value
    agg_pc, df, grouped,
    \* --- SpecRun: one call of collect_and_save_data
    API_KEY, run_pc, futures, consumed, all_dfs, full_df,
    raw_file, ranking_file, io_fault, result,
    \* --- Spec: the server process
    threads, raw_csv, ranking_csv, update_reply, update_status, reader_pc, response

plannerVars == <<end_date, months, tasks>>
parserVars == <<parser_pc, xml_data, district_name, parsed>>
aggVars == <<agg_pc, df, grouped>>
runVars ==
    <<API_KEY, run_pc, futures, consumed, all_dfs, full_df,
      raw_file, ranking_file, io_fault, result>>
serverVars ==
    <<threads, raw_csv, ranking_csv, update_reply, update_status, reader_pc, response>>
vars == <<plannerVars, parserVars, aggVars, runVars, serverVars>>

\* What each specification leaves alone.
notPlanner == <<parserVars, aggVars, runVars, serverVars>>
notParser == <<plannerVars, aggVars, runVars, serverVars>>
notAgg == <<plannerVars, parserVars, runVars, serverVars>>
notRun == <<plannerVars, parserVars, aggVars, serverVars>>
notServer == <<plannerVars, parserVars, aggVars, runVars>>

(***************************************************************************)
(* Text                                                                    *)
(***************************************************************************)

\* Python's None.  No text is the one-element sequence <<"None">>: a text is
\* a sequence of one-character strings.
None == <<"None">>

\* The characters the model's texts are made of, in code-point order.
Chars ==
    <<" ", "+", ",", "-", ".", "0", "1", "2", "3", "4", "5", "6", "7",
    "8", "9", "A", "B", "C", "D", "E", "F", "G", "H", "I", "J", "K", "L",
    "M", "N", "O", "P", "Q", "R", "S", "T", "U", "V", "W", "X", "Y", "Z",
    "a", "b", "c", "d", "e", "f", "g", "h", "i", "j", "k", "l", "m", "n",
    "o", "p", "q", "r", "s", "t", "u", "v", "w", "x", "y", "z">>

Ord(c) == CHOOSE i \in 1..Len(Chars) : Chars[i] = c

\* Python truthiness of an optional text: None and "" are falsy.
Truthy(s) == s # None /\ s # <<>>

\* a < b for str (lexicographic by code point).
RECURSIVE StrLess(_, _)
StrLess(a, b) ==
    IF b = <<>> THEN FALSE
    ELSE IF a = <<>> THEN TRUE
    ELSE IF Head(a) = Head(b) THEN StrLess(Tail(a), Tail(b))
    ELSE Ord(Head(a)) < Ord(Head(b))

\* str.strip(): leading and trailing blanks removed.
RECURSIVE LStrip(_)
LStrip(s) == IF s # <<>> /\ Head(s) = " " THEN LStrip(Tail(s)) ELSE s

RECURSIVE RStrip(_)
RStrip(s) ==
    IF s # <<>> /\ s[Len(s)] = " " THEN RStrip(SubSeq(s, 1, Len(s) - 1)) ELSE s

Strip(s) == RStrip(LStrip(s))

\* str.replace(",", "")
RemoveCommas(s) == SelectSeq(s, LAMBDA c : c # ",")

\* str.zfill(2) on an unsigned text
Zfill2(s) == IF Len(s) >= 2 THEN s ELSE IF Len(s) = 1 THEN <<"0">> \o s ELSE <<"0", "0">>

Digits == {"0", "1", "2", "3", "4", "5", "6", "7", "8", "9"}

DigitVal(c) == Ord(c) - Ord("0")

IsDigits(s) == s # <<>> /\ \A i \in 1..Len(s) : s[i] \in Digits

RECURSIVE DigitsVal(_)
DigitsVal(s) ==
    IF s = <<>> THEN 0 ELSE DigitsVal(SubSeq(s, 1, Len(s) - 1)) * 10 + DigitVal(s[Len(s)])

\* int(s): s is blanks, an optional sign, decimal digits, blanks; anything
\* else raises ValueError.
Unsigned(s) == IF s # <<>> /\ Head(s) \in {"+", "-"} THEN Tail(s) ELSE s

IntOk(s) == IsDigits(Unsigned(Strip(s)))

IntVal(s) ==
    LET t == Strip(s)
    IN  IF t # <<>> /\ Head(t) = "-" THEN 0 - DigitsVal(Tail(t)) ELSE DigitsVal(Unsigned(t))

\* float(s): blanks, an optional sign, digits with at most one point and at
\* least one digit, blanks.  The texts the model feeds it have at most two
\* decimals, so the value is exact in hundredths.
PointAt(s) == IF \E i \in 1..Len(s) : s[i] = "." THEN CHOOSE i \in 1..Len(s) : s[i] = "." ELSE 0

FloatOk(s) ==
    LET t == Unsigned(Strip(s))
        p == PointAt(t)
        whole == IF p = 0 THEN t ELSE SubSeq(t, 1, p - 1)
        frac == IF p = 0 THEN <<>> ELSE SubSeq(t, p + 1, Len(t))
    IN  /\ whole \o frac # <<>>
        /\ \A i \in 1..Len(whole) : whole[i] \in Digits
        /\ \A i \in 1..Len(frac) : frac[i] \in Digits

FloatVal(s) ==
    LET t == Unsigned(Strip(s))
        p == PointAt(t)
        whole == IF p = 0 THEN t ELSE SubSeq(t, 1, p - 1)
        frac == IF p = 0 THEN <<>> ELSE SubSeq(t, p + 1, Len(t))
        f2 == SubSeq(frac \o <<"0", "0">>, 1, 2)
        mag == DigitsVal(whole) * 100 + DigitsVal(f2)
    IN  IF Head(Strip(s)) = "-" THEN 0 - mag ELSE mag

(***************************************************************************)
(* Dates: datetime.date and dateutil's relativedelta                       *)
(***************************************************************************)

IsLeap(y) == (y % 4 = 0 /\ y % 100 # 0) \/ y % 400 = 0

DaysInMonth(y, m) ==
    IF m = 2 THEN (IF IsLeap(y) THEN 29 ELSE 28)
    ELSE IF m \in {4, 6, 9, 11} THEN 30 ELSE 31

Min(a, b) == IF a <= b THEN a ELSE b

\* date - relativedelta(years=n): same month, the day clamped to the month.
MinusYears(dt, n) ==
    [y |-> dt.y - n, m |-> dt.m, d |-> Min(dt.d, DaysInMonth(dt.y - n, dt.m))]

\* date + relativedelta(months=1): next month, the day clamped to the month.
PlusOneMonth(dt) ==
    LET y2 == IF dt.m = 12 THEN dt.y + 1 ELSE dt.y
        m2 == IF dt.m = 12 THEN 1 ELSE dt.m + 1
    IN  [y |-> y2, m |-> m2, d |-> Min(dt.d, DaysInMonth(y2, m2))]

\* a < b on datetime.date
DateLT(a, b) ==
    \/ a.y < b.y
    \/ a.y = b.y /\ a.m < b.m
    \/ a.y = b.y /\ a.m = b.m /\ a.d < b.d

\* The loop test written "curr < end_date".
DateLE_Exclusive(a, b) == DateLT(a, b)

\* curr <= end_date on datetime.date
DateLE(a, b) == DateLT(a, b) \/ a = b

\* strftime("%Y%m"): four digits of year, two of month.  The token is kept
\* as the number those six digits spell.
Strftime_Ym(dt) == dt.y * 100 + dt.m

(***************************************************************************)
(* Task planning: collect_and_save_data, lines 103-113                     *)
(***************************************************************************)

SEOUL_DISTRICTS ==
  <<
     [code |-> 11110, name |-> <<"J","o","n","g","n","o">>],
     [code |-> 11140, name |-> <<"J","u","n","g">>],
     [code |-> 11170, name |-> <<"Y","o","n","g","s","a","n">>],
     [code |-> 11200, name |-> <<"S","e","o","n","g","d","o","n","g">>],
     [code |-> 11215, name |-> <<"G","w","a","n","g","j","i","n">>],
     [code |-> 11230, name |-> <<"D","o","n","g","d","a","e","m","u","n">>],
     [code |-> 11260, name |-> <<"J","u","n","g","n","a","n","g">>],
     [code |-> 11290, name |-> <<"S","e","o","n","g","b","u","k">>],
     [code |-> 11305, name |-> <<"G","a","n","g","b","u","k">>],
     [code |-> 11320, name |-> <<"D","o","b","o","n","g">>],
     [code |-> 11350, name |-> <<"N","o","w","o","n">>],
     [code |-> 11380, name |-> <<"E","u","n","p","y","e","o","n","g">>],
     [code |-> 11410, name |-> <<"S","e","o","d","a","e","m","u","n">>],
     [code |-> 11440, name |-> <<"M","a","p","o">>],
     [code |-> 11470, name |-> <<"Y","a","n","g","c","h","e","o","n">>],
     [code |-> 11500, name |-> <<"G","a","n","g","s","e","o">>],
     [code |-> 11530, name |-> <<"G","u","r","o">>],
     [code |-> 11545, name |-> <<"G","e","u","m","c","h","e","o","n">>],
     [code |-> 11560, name |-> <<"Y","e","o","n","g","d","e","u","n","g","p","o">>],
     [code |-> 11590, name |-> <<"D","o","n","g","j","a","k">>],
     [code |-> 11620, name |-> <<"G","w","a","n","a","k">>],
     [code |-> 11650, name |-> <<"S","e","o","c","h","o">>],
     [code |-> 11680, name |-> <<"G","a","n","g","n","a","m">>],
     [code |-> 11710, name |-> <<"S","o","n","g","p","a">>],
     [code |-> 11740, name |-> <<"G","a","n","g","d","o","n","g">>] >>

\* lines 105-109: the while loop from start_date to end_date
RECURSIVE MonthLoop(_, _, _)
MonthLoop(curr, last, acc) ==
    IF DateLE(curr, last)
    THEN MonthLoop(PlusOneMonth(curr), last, Append(acc, Strftime_Ym(curr)))
    ELSE acc

Months(today) == MonthLoop(MinusYears(today, 3), today, <<>>)

\* lines 111-113: for each district (dict order), for each month
Tasks(ms) ==
    [k \in 1..(Len(SEOUL_DISTRICTS) * Len(ms)) |->
        LET i == ((k - 1) \div Len(ms)) + 1
            j == ((k - 1) % Len(ms)) + 1
        IN  <<SEOUL_DISTRICTS[i].code, SEOUL_DISTRICTS[i].name, ms[j]>>]

(***************************************************************************)
(* parse_xml_to_df, lines 54-81                                            *)
(***************************************************************************)

\* The response text.  kind "none" is None, "empty" is "", "text" is a
\* non-empty text: wellformed says whether ET.fromstring accepts it, items
\* are its <item> elements in document order (root.findall(".//item")).
\* An item gives each child element's text, None when the element is absent
\* (what item.findtext returns).
NoneText == [kind |-> "none"]
EmptyText == [kind |-> "empty"]
BadXml == [kind |-> "text", wellformed |-> FALSE, items |-> <<>>]
Xml(items) == [kind |-> "text", wellformed |-> TRUE, items |-> items]

\* x or y or ""
FirstTruthy(a, b) == IF Truthy(a) THEN a ELSE IF Truthy(b) THEN b ELSE <<>>

\* lines 68 and 72: the conversions that raise ValueError
ItemRaises(item) ==
    \/ Truthy(item.dealAmount) /\ ~IntOk(RemoveCommas(Strip(item.dealAmount)))
    \/ Truthy(item.excluUseAr) /\ ~FloatOk(item.excluUseAr)

\* lines 64-77: the row of an item whose conversions succeed
Row(item, name) ==
    [district |-> name,
     dong |-> Strip(FirstTruthy(item.umdNm, item.aptDong)),
     apt |-> Strip(FirstTruthy(item.aptNm, <<>>)),
     amount |-> IF Truthy(item.dealAmount)
                THEN IntVal(RemoveCommas(Strip(item.dealAmount))) ELSE 0,
     year |-> item.dealYear,
     month |-> item.dealMonth,
     day |-> item.dealDay,
     area |-> IF Truthy(item.excluUseAr) THEN FloatVal(item.excluUseAr) ELSE 0,
     floor |-> IF Truthy(item.floor) THEN item.floor ELSE <<"0">>,
     date |-> IF Truthy(item.dealYear) /\ Truthy(item.dealMonth) /\ Truthy(item.dealDay)
              THEN item.dealYear \o <<"-">> \o Zfill2(item.dealMonth)
                   \o <<"-">> \o Zfill2(item.dealDay)
              ELSE <<"2", "0", "0", "0", "-", "0", "1", "-", "0", "1">>]

\* The loop with no try around an item: the first raise leaves the loop and
\* the outer except returns an empty frame.
ItemLoop_NoInnerTry(items, name) ==
    IF \E i \in 1..Len(items) : ItemRaises(items[i]) THEN <<>>
    ELSE [i \in 1..Len(items) |-> Row(items[i], name)]

\* lines 61-79: data = []; for item in items: try: data.append(row) except: continue
RECURSIVE ItemLoop(_, _)
ItemLoop(items, name) ==
    IF items = <<>> THEN <<>>
    ELSE (IF ItemRaises(Head(items)) THEN <<>> ELSE <<Row(Head(items), name)>>)
         \o ItemLoop(Tail(items), name)

\* A DataFrame is the sequence of its rows; pd.DataFrame() is <<>>.
parse_xml_to_df(xml, name) ==
    IF xml.kind # "text" THEN <<>>
    ELSE IF ~xml.wellformed THEN <<>>
    ELSE IF xml.items = <<>> THEN <<>>
    ELSE ItemLoop(xml.items, name)

\* The items the model's payloads are made of.
Item(umd, dong, apt, amount, y, m, d, area, fl) ==
    [umdNm |-> umd, aptDong |-> dong, aptNm |-> apt, dealAmount |-> amount,
     dealYear |-> y, dealMonth |-> m, dealDay |-> d, excluUseAr |-> area, floor |-> fl]

Y2024 == <<"2", "0", "2", "4">>
Y2023 == <<"2", "0", "2", "3">>

ItemFull == Item(<<" ", "A", " ">>, None, <<"X">>, <<" ", "8", "2", ",", "5", "0", "0">>, Y2024, <<"1">>, <<"5">>, <<"8", "4", ".", "9", "7">>, <<"3">>)
ItemDongOnly == Item(None, <<"B">>, <<"X">>, <<"1", "5", "0", ",", "0", "0", "0">>, Y2023, <<"1", "2">>, <<"3", "1">>, <<"8", "4", ".", "9", "7">>, None)
ItemNoYear == Item(<<"A">>, None, <<"X">>, <<"1", "5", "0", ",", "0", "0", "0">>, None, <<"1">>, <<"5">>, <<"8", "4", ".", "9", "7">>, <<"3">>)
ItemBare == Item(None, None, None, None, None, None, None, None, None)
ItemEmptyTexts == Item(<<>>, <<>>, <<>>, <<>>, <<>>, <<>>, <<>>, <<>>, <<>>)
ItemBadAmount == Item(<<"A">>, None, <<"X">>, <<"8", "x">>, Y2024, <<"1">>, <<"5">>, <<"8", "4", ".", "9", "7">>, <<"3">>)
ItemBadArea == Item(<<"A">>, None, <<"X">>, <<" ", "8", "2", ",", "5", "0", "0">>, Y2024, <<"1">>, <<"5">>, <<"8", ".", "4", ".", "9">>, <<"3">>)
ItemBlankAmount == Item(<<"A">>, None, <<"X">>, <<" ">>, Y2024, <<"1">>, <<"5">>, <<"8", "4", ".", "9", "7">>, <<"3">>)

ItemPool ==
    {ItemFull, ItemDongOnly, ItemNoYear, ItemBare, ItemEmptyTexts,
     ItemBadAmount, ItemBadArea, ItemBlankAmount}

MaxItems == 3

RECURSIVE SeqsUpTo(_, _)
SeqsUpTo(S, n) ==
    IF n = 0 THEN {<<>>}
    ELSE LET shorter == SeqsUpTo(S, n - 1)
         IN  shorter \cup {Append(q, x) : q \in {t \in shorter : Len(t) = n - 1}, x \in S}

Payloads == {NoneText, EmptyText, BadXml} \cup {Xml(q) : q \in SeqsUpTo(ItemPool, MaxItems)}

Parse ==
    /\ parser_pc = "call"
    /\ parsed' = parse_xml_to_df(xml_data, district_name)
    /\ parser_pc' = "return"
    /\ UNCHANGED <<xml_data, district_name, notParser>>

(***************************************************************************)
(* get_price_tier and analyze_data, lines 83-99                            *)
(***************************************************************************)

\* The thresholds of get_price_tier (lines 84-86).
TIER_1 == 100000
TIER_2 == 150000
TIER_3 == 200000

\* A mean is kept exact, as the fraction num/den (den > 0).  The labels are
\* the four Korean labels of lines 84-87: "10eok miman" (under 1.0 billion
\* won) is "T1", "10eok~15eok" is "T2", "15eok~20eok" is "T3", "20eok isang"
\* is "T4".
FracLess(q, k) == q.num < k * q.den

get_price_tier(price) ==
    IF FracLess(price, TIER_1) THEN "T1"
    ELSE IF FracLess(price, TIER_2) THEN "T2"
    ELSE IF FracLess(price, TIER_3) THEN "T3"
    ELSE "T4"

\* line 92: the grouping key
GroupKey(r) == <<r.district, r.dong, r.apt, r.year, r.area>>

\* groupby's default dropna=True: a row whose key holds a missing value
\* (None) belongs to no group.  Only the year can be None: the other text
\* keys are str, the area is a float.
HasNAKey(r) == r.year = None

\* groupby's default sort=True: groups come in key order.
KeyLess(a, b) ==
    LET RECURSIVE Lex(_)
        Lex(i) ==
            IF i = 5 THEN a[5] < b[5]
            ELSE IF a[i] = b[i] THEN Lex(i + 1)
            ELSE StrLess(a[i], b[i])
    IN  Lex(1)

RECURSIVE SortedKeys(_)
SortedKeys(S) ==
    IF S = {} THEN <<>>
    ELSE LET k == CHOOSE x \in S : \A o \in S \ {x} : KeyLess(x, o)
         IN  <<k>> \o SortedKeys(S \ {k})

RECURSIVE SumAmount(_)
SumAmount(rows) == IF rows = <<>> THEN 0 ELSE Head(rows).amount + SumAmount(Tail(rows))

\* max of a column of str
RECURSIVE MaxStr(_)
MaxStr(q) ==
    IF Len(q) = 1 THEN q[1]
    ELSE LET m == MaxStr(Tail(q)) IN IF StrLess(Head(q), m) THEN m ELSE Head(q)

\* lines 92-96: one output row per group with count, mean and max
Bucket(k, rows) ==
    [district |-> k[1], dong |-> k[2], apt |-> k[3], year |-> k[4], area |-> k[5],
     count |-> Len(rows),
     mean |-> [num |-> SumAmount(rows), den |-> Len(rows)],
     latest |-> MaxStr([i \in 1..Len(rows) |-> rows[i].date])]

\* line 97: sort_values(by count, ascending=False); equal counts keep the
\* order they had (the order of the keys).
RECURSIVE SortByCountDesc(_)
SortByCountDesc(g) ==
    IF g = <<>> THEN <<>>
    ELSE LET top == CHOOSE c \in {g[i].count : i \in 1..Len(g)} :
                        \A i \in 1..Len(g) : g[i].count <= c
             at == CHOOSE i \in 1..Len(g) :
                        g[i].count = top /\ \A j \in 1..(i - 1) : g[j].count # top
         IN  <<g[at]>> \o SortByCountDesc(SubSeq(g, 1, at - 1) \o SubSeq(g, at + 1, Len(g)))

\* line 98: the price tier column
WithTier(b) ==
    [district |-> b.district, dong |-> b.dong, apt |-> b.apt, year |-> b.year,
     area |-> b.area, count |-> b.count, mean |-> b.mean, latest |-> b.latest,
     price_tier |-> get_price_tier(b.mean)]

analyze_data(frame) ==
    IF frame = <<>> THEN <<>>
    ELSE LET kept == SelectSeq(frame, LAMBDA r : ~HasNAKey(r))
             keys == SortedKeys({GroupKey(kept[i]) : i \in 1..Len(kept)})
             buckets == [n \in 1..Len(keys) |->
                            Bucket(keys[n], SelectSeq(kept, LAMBDA r : GroupKey(r) = keys[n]))]
             sorted == SortByCountDesc(buckets)
         IN  [n \in 1..Len(sorted) |-> WithTier(sorted[n])]

\* The records analyze_data is applied to: rows parse_xml_to_df emits.
Trade(apt, amount, y, m, d, area) ==
    Row(Item(<<"A">>, None, apt, amount, y, m, d, area, None), SEOUL_DISTRICTS[23].name)

RowPool ==
    {Trade(<<"X">>, <<"1", "4", "9", ",", "9", "9", "9">>, Y2024, <<"1">>, <<"5">>, <<"1", "0", "1", ".", "9">>),
     Trade(<<"X">>, <<"1", "5", "0", ",", "0", "0", "0">>, Y2024, <<"1", "2">>, <<"3", "1">>, <<"1", "0", "1", ".", "9">>),
     Trade(<<"X">>, <<"1", "5", "0", ",", "0", "0", "1">>, Y2024, <<"3">>, <<"9">>, <<"1", "0", "1", ".", "9">>),
     Trade(<<"X">>, <<"9", "9", ",", "9", "9", "9">>, Y2023, <<"1">>, <<"5">>, <<"1", "0", "2", ".", "0">>),
     Trade(<<"X">>, <<"1", "0", "0", ",", "0", "0", "0">>, Y2023, <<"7">>, <<"1">>, <<"1", "0", "2", ".", "0">>),
     Trade(<<"Y">>, <<"2", "0", "0", ",", "0", "0", "0">>, Y2024, <<"1">>, <<"5">>, <<"8", "4", ".", "9", "7">>),
     Trade(<<"X">>, <<"1", "5", "0", ",", "0", "0", "0">>, None, <<"1">>, <<"5">>, <<"1", "0", "1", ".", "9">>),
     Trade(<<>>, <<"1", "9", "9", ",", "9", "9", "9">>, Y2024, None, None, <<"8", "4", ".", "9", "7">>)}

MaxRows == 3

Analyze ==
    /\ agg_pc = "call"
    /\ grouped' = analyze_data(df)
    /\ agg_pc' = "return"
    /\ UNCHANGED <<df, notAgg>>

(***************************************************************************)
(* fetch_data and collect_and_save_data, lines 43-52 and 101-136           *)
(***************************************************************************)

\* What the provider does with one request: it answers with a status code
\* and a text, or requests.get raises (a timeout, a connection error).
HttpOutcomes(texts) ==
    {[kind |-> "response", status_code |-> 200, text |-> t] : t \in texts}
    \cup {[kind |-> "response", status_code |-> 500, text |-> EmptyText],
          [kind |-> "timeout"], [kind |-> "io_error"]}

\* fetch_data with the except clause missing: the exception reaches the
\* future.
fetch_data_Raises(key, http) ==
    IF ~key THEN [raised |-> FALSE, value |-> NoneText]
    ELSE IF http.kind # "response" THEN [raised |-> TRUE, value |-> NoneText]
    ELSE IF http.status_code # 200 THEN [raised |-> FALSE, value |-> NoneText]
    ELSE [raised |-> FALSE, value |-> http.text]

\* lines 43-52.  The value is what the future holds: the text returned, or
\* an exception (raised).  With no API key no request is made.
fetch_data(key, http) ==
    IF ~key THEN [raised |-> FALSE, value |-> NoneText]
    ELSE IF http.kind # "response" THEN [raised |-> FALSE, value |-> NoneText]
    ELSE IF http.status_code # 200 THEN [raised |-> FALSE, value |-> NoneText]
    ELSE [raised |-> FALSE, value |-> http.text]

\* The fetch loop runs over the first NumTasks districts' first month
\* instead of all 925 tasks.  NumTasks stays below the pool's 12 workers, so
\* no task waits for a worker.
NumTasks == 2

RunDay == [y |-> 2024, m |-> 2, d |-> 29]

RunTasks ==
    LET ms == Months(RunDay)
        all == Tasks(ms)
    IN  [k \in 1..NumTasks |-> all[(k - 1) * Len(ms) + 1]]

\* The texts a 200 response carries in SpecRun.
RunTexts ==
    {EmptyText, BadXml, Xml(<<>>), Xml(<<ItemFull>>),
     Xml(<<ItemBadAmount, ItemNoYear>>), Xml(<<ItemBadArea>>)}

Pending == [state |-> "pending"]

\* A CSV file on disk: the rows written and whether the writer closed it.
Absent == [exists |-> FALSE, rows |-> <<>>, complete |-> FALSE]
Written(rows) == [exists |-> TRUE, rows |-> rows, complete |-> TRUE]
Truncated(rows, k) == [exists |-> TRUE, rows |-> SubSeq(rows, 1, k), complete |-> FALSE]

\* DataFrame.to_csv(path): open(path, "w") truncates, the rows are written,
\* the file is closed.  fault "open": open raises and the file is as it was;
\* fault "write": a write raises and a prefix of k rows is left.
to_csv(old, rows, fault, k) ==
    IF fault = "none" THEN Written(rows)
    ELSE IF fault = "open" THEN old
    ELSE Truncated(rows, k)

\* pd.concat(all_dfs, ignore_index=True); it raises on an empty list.
RECURSIVE Concat(_)
Concat(dfs) == IF dfs = <<>> THEN <<>> ELSE Head(dfs) \o Concat(Tail(dfs))

\* The test of line 127 left out.
NoData_Never(dfs) == FALSE

\* line 127: if not all_dfs
NoData(dfs) == dfs = <<>>

\* The return values of lines 127, 135 and 136: (ok, message); the message
\* is kept as its kind and the number or the cause it carries.
CollectFailed == [ok |-> FALSE, kind |-> "collect_failed", count |-> 0, cause |-> "none"]
Completed(n) == [ok |-> TRUE, kind |-> "completed", count |-> n, cause |-> "none"]
ProcessingError(e) == [ok |-> FALSE, kind |-> "processing_error", count |-> 0, cause |-> e]
NoResult == [ok |-> FALSE, kind |-> "running", count |-> 0, cause |-> "none"]

\* The cache of an earlier run, when there is one.
OldRaw == <<Row(ItemDongOnly, SEOUL_DISTRICTS[1].name)>>

\* lines 103-117: the plan is made and every task is submitted to the pool.
Submit ==
    /\ run_pc = "start"
    /\ futures' = [t \in 1..NumTasks |-> Pending]
    /\ run_pc' = "collect"
    /\ UNCHANGED <<notRun, API_KEY, consumed, all_dfs, full_df, raw_file, ranking_file, io_fault, result>>

\* A pool worker runs fetch_data for task t to its end.
Fetch(t) ==
    /\ run_pc = "collect"
    /\ futures[t] = Pending
    /\ \E http \in HttpOutcomes(RunTexts) :
          futures' = [futures EXCEPT ![t] =
                         [state |-> "done", http |-> http,
                          outcome |-> fetch_data(API_KEY, http)]]
    /\ UNCHANGED <<notRun, API_KEY, run_pc, consumed, all_dfs, full_df, raw_file, ranking_file,
                   io_fault, result>>

\* lines 118-125: as_completed hands over a finished future; its text, when
\* there is one, is parsed and a non-empty frame is kept.  An exception of
\* the future is swallowed by the bare except.
Consume(t) ==
    /\ run_pc = "collect"
    /\ t \notin consumed
    /\ futures[t] # Pending
    /\ consumed' = consumed \cup {t}
    /\ LET out == futures[t].outcome
           frame == parse_xml_to_df(out.value, RunTasks[t][2])
       IN  all_dfs' = IF ~out.raised /\ out.value.kind = "text" /\ frame # <<>>
                      THEN Append(all_dfs, frame) ELSE all_dfs
    /\ UNCHANGED <<notRun, API_KEY, run_pc, futures, full_df, raw_file, ranking_file, io_fault, result>>

\* line 127, reached when as_completed is exhausted and the pool is shut down
CheckData ==
    /\ run_pc = "collect"
    /\ consumed = 1..NumTasks
    /\ IF NoData(all_dfs)
       THEN run_pc' = "done" /\ result' = CollectFailed
       ELSE run_pc' = "save_raw" /\ UNCHANGED result
    /\ UNCHANGED <<notRun, API_KEY, futures, consumed, all_dfs, full_df, raw_file, ranking_file, io_fault>>

\* lines 129-131 (and 136 when they raise)
SaveRaw ==
    /\ run_pc = "save_raw"
    /\ IF all_dfs = <<>>
       THEN /\ result' = ProcessingError("concat")
            /\ run_pc' = "done"
            /\ UNCHANGED <<full_df, raw_file, io_fault>>
       ELSE /\ full_df' = Concat(all_dfs)
            /\ \E fault \in {"none", "open", "write"}, k \in 0..(Len(full_df') - 1) :
                  /\ fault # "write" => k = 0
                  /\ raw_file' = to_csv(raw_file, full_df', fault, k)
                  /\ io_fault' = (IF fault = "none" THEN "none" ELSE "raw_" \o fault)
                  /\ IF fault = "none"
                     THEN run_pc' = "save_ranking" /\ UNCHANGED result
                     ELSE run_pc' = "done" /\ result' = ProcessingError(io_fault')
    /\ UNCHANGED <<notRun, API_KEY, futures, consumed, all_dfs, ranking_file>>

\* lines 133-135 (and 136 when they raise)
SaveRanking ==
    /\ run_pc = "save_ranking"
    /\ LET analyzed_df == analyze_data(full_df)
       IN  \E fault \in {"none", "open", "write"}, k \in 0..Len(analyzed_df) :
              /\ fault # "write" => k = 0
              /\ (fault = "write" /\ analyzed_df # <<>>) => k < Len(analyzed_df)
              /\ ranking_file' = to_csv(ranking_file, analyzed_df, fault, k)
              /\ io_fault' = (IF fault = "none" THEN "none" ELSE "ranking_" \o fault)
              /\ result' = (IF fault = "none" THEN Completed(Len(full_df))
                            ELSE ProcessingError(io_fault'))
    /\ run_pc' = "done"
    /\ UNCHANGED <<notRun, API_KEY, futures, consumed, all_dfs, full_df, raw_file>>

(***************************************************************************)
(* The server: update_data (lines 204-223), the threads it starts, the two *)
(* CSV files and the routes that read them (lines 138-182, 225-260)        *)
(***************************************************************************)

\* In this specification a frame is kept as its number of rows: a thread's
\* collection ends with n raw records (what SpecRun computes from the
\* responses) and its ranking has m buckets, 0 <= m <= n (m < n when rows
\* share a bucket or have no year).
MaxThreads == 2
MaxRecords == 2

\* A CSV file on disk.  writer is the thread whose open() last truncated
\* it (0: the files deployed with the application), rows the rows on disk,
\* total the rows of the frame being written, complete whether that writer
\* has closed it.  torn: a thread wrote into it after another thread had
\* truncated it, so the bytes of two frames are mixed.
NoFile == [exists |-> FALSE, writer |-> 0, rows |-> 0, total |-> 0, complete |-> FALSE, torn |-> FALSE]
Deployed(n) == [exists |-> TRUE, writer |-> 0, rows |-> n, total |-> n, complete |-> TRUE, torn |-> FALSE]

\* open(path, "w") by thread r for a frame of n rows
FOpen(r, n) == [exists |-> TRUE, writer |-> r, rows |-> 0, total |-> n, complete |-> FALSE, torn |-> FALSE]

\* the buffer is flushed: k rows of r's frame are on disk
FWrite(f, r, k) ==
    IF f.writer = r /\ ~f.torn THEN [f EXCEPT !.rows = k] ELSE [f EXCEPT !.torn = TRUE]

\* the last flush and close()
FClose(f, r) ==
    IF f.writer = r /\ ~f.torn THEN [f EXCEPT !.rows = f.total, !.complete = TRUE]
    ELSE [f EXCEPT !.torn = TRUE]

\* pd.read_csv(path): what a reader gets from the file as it is now.
\* raised: FileNotFoundError, EmptyDataError (no bytes yet), ParserError.
\* whole says whether the rows read are all the rows of a closed file.
ReadCsv(f) ==
    IF ~f.exists THEN {[raised |-> TRUE, rows |-> 0, whole |-> FALSE]}
    ELSE IF f.torn
         THEN {[raised |-> TRUE, rows |-> 0, whole |-> FALSE],
               [raised |-> FALSE, rows |-> f.rows, whole |-> FALSE]}
    ELSE IF ~f.complete /\ f.rows = 0 THEN {[raised |-> TRUE, rows |-> 0, whole |-> FALSE]}
    ELSE {[raised |-> FALSE, rows |-> f.rows, whole |-> f.complete]}

\* lines 138-148, on what read_csv gave (a file the pipeline wrote has the
\* columns of line 144)
validate_data_file(f, got) == f.exists /\ ~got.raised /\ got.rows > 0

Active(th) == th.pc # "done"

NoReply == [status |-> "none", while_running |-> FALSE]

\* The status the specification describes ({running, message}, empty at
\* process start).  No statement of src/apt_rank.py reads or writes such an
\* object, so no action below changes update_status.
IdleStatus == [running |-> FALSE, message |-> ""]
NoResponse == [route |-> "none", kind |-> "none", rows |-> 0, whole |-> FALSE]
Respond(route, kind, got) == [route |-> route, kind |-> kind, rows |-> got.rows, whole |-> got.whole]
NothingRead == [raised |-> FALSE, rows |-> 0, whole |-> FALSE]

\* lines 204-223: POST /update starts a daemon thread running
\* collect_and_save_data and answers 'success' at once.
update_data ==
    /\ Len(threads) < MaxThreads
    /\ threads' = Append(threads, [pc |-> "collect", n |-> 0, m |-> 0])
    /\ update_reply' = [status |-> "success",
                        while_running |-> \E r \in 1..Len(threads) : Active(threads[r])]
    /\ UNCHANGED <<raw_csv, ranking_csv, update_status, reader_pc, response, notServer>>

\* lines 103-127 in thread r: the collection, and the return of line 127
\* when it gave nothing.  task() drops the value collect_and_save_data
\* returns (line 210).
Collect(r) ==
    /\ threads[r].pc = "collect"
    /\ \E n \in 0..MaxRecords, m \in 0..MaxRecords :
          /\ m <= n
          /\ threads' = [threads EXCEPT ![r] =
                            [pc |-> IF n = 0 THEN "done" ELSE "save_raw", n |-> n, m |-> m]]
    /\ UNCHANGED <<raw_csv, ranking_csv, update_reply, update_status, reader_pc, response,
                   notServer>>

\* line 131, first part: to_csv opens the RAW file, or open raises and the
\* thread ends through line 136
OpenRaw(r) ==
    /\ threads[r].pc = "save_raw"
    /\ \/ /\ raw_csv' = FOpen(r, threads[r].n)
          /\ threads' = [threads EXCEPT ![r].pc = "raw_open"]
       \/ /\ threads' = [threads EXCEPT ![r].pc = "done"]
          /\ UNCHANGED raw_csv
    /\ UNCHANGED <<ranking_csv, update_reply, update_status, reader_pc, response, notServer>>

\* line 131: some rows reach the disk before the file is closed
FlushRaw(r) ==
    /\ threads[r].pc = "raw_open"
    /\ \E k \in 1..(threads[r].n - 1) : raw_csv' = FWrite(raw_csv, r, k)
    /\ threads' = [threads EXCEPT ![r].pc = "raw_partial"]
    /\ UNCHANGED <<ranking_csv, update_reply, update_status, reader_pc, response, notServer>>

\* line 131, last part: the file is closed, or a write raises and the
\* thread ends through line 136 with the file as far as it got
CloseRaw(r) ==
    /\ threads[r].pc \in {"raw_open", "raw_partial"}
    /\ \/ /\ raw_csv' = FClose(raw_csv, r)
          /\ threads' = [threads EXCEPT ![r].pc = "save_ranking"]
       \/ /\ threads' = [threads EXCEPT ![r].pc = "done"]
          /\ UNCHANGED raw_csv
    /\ UNCHANGED <<ranking_csv, update_reply, update_status, reader_pc, response, notServer>>

\* lines 133-134, first part: analyze_data, then to_csv opens the RANKING
\* file, or one of them raises
OpenRanking(r) ==
    /\ threads[r].pc = "save_ranking"
    /\ \/ /\ ranking_csv' = FOpen(r, threads[r].m)
          /\ threads' = [threads EXCEPT ![r].pc = "ranking_open"]
       \/ /\ threads' = [threads EXCEPT ![r].pc = "done"]
          /\ UNCHANGED ranking_csv
    /\ UNCHANGED <<raw_csv, update_reply, update_status, reader_pc, response, notServer>>

FlushRanking(r) ==
    /\ threads[r].pc = "ranking_open"
    /\ \E k \in 1..(threads[r].m - 1) : ranking_csv' = FWrite(ranking_csv, r, k)
    /\ threads' = [threads EXCEPT ![r].pc = "ranking_partial"]
    /\ UNCHANGED <<raw_csv, update_reply, update_status, reader_pc, response, notServer>>

\* line 134, last part, and the return of line 135 or 136
CloseRanking(r) ==
    /\ threads[r].pc \in {"ranking_open", "ranking_partial"}
    /\ \/ ranking_csv' = FClose(ranking_csv, r)
       \/ UNCHANGED ranking_csv
    /\ threads' = [threads EXCEPT ![r].pc = "done"]
    /\ UNCHANGED <<raw_csv, update_reply, update_status, reader_pc, response, notServer>>

\* GET /, lines 152-163: validate_data_file; the "no data file" page
IndexValidate ==
    /\ reader_pc = "idle"
    /\ \E got \in ReadCsv(ranking_csv) :
          IF validate_data_file(ranking_csv, got)
          THEN reader_pc' = "index_load" /\ UNCHANGED response
          ELSE reader_pc' = "idle" /\ response' = Respond("index", "no_data_page", NothingRead)
    /\ UNCHANGED <<threads, raw_csv, ranking_csv, update_reply, update_status, notServer>>

\* GET /, lines 165-182: the file is read again and rendered
IndexLoad ==
    /\ reader_pc = "index_load"
    /\ \E got \in ReadCsv(ranking_csv) :
          response' = IF got.raised THEN Respond("index", "error_text", NothingRead)
                      ELSE Respond("index", "page", got)
    /\ reader_pc' = "idle"
    /\ UNCHANGED <<threads, raw_csv, ranking_csv, update_reply, update_status, notServer>>

\* GET /api/data, lines 228-229
ApiValidate ==
    /\ reader_pc = "idle"
    /\ \E got \in ReadCsv(ranking_csv) :
          IF validate_data_file(ranking_csv, got)
          THEN reader_pc' = "api_load" /\ UNCHANGED response
          ELSE reader_pc' = "idle" /\ response' = Respond("api_data", "404", NothingRead)
    /\ UNCHANGED <<threads, raw_csv, ranking_csv, update_reply, update_status, notServer>>

\* GET /api/data, lines 230-236
ApiLoad ==
    /\ reader_pc = "api_load"
    /\ \E got \in ReadCsv(ranking_csv) :
          response' = IF got.raised THEN Respond("api_data", "500", NothingRead)
                      ELSE Respond("api_data", "success", got)
    /\ reader_pc' = "idle"
    /\ UNCHANGED <<threads, raw_csv, ranking_csv, update_reply, update_status, notServer>>

\* GET /api/history, lines 239-260: the rows read are filtered and sorted
get_apt_history ==
    /\ reader_pc = "idle"
    /\ IF ~raw_csv.exists
       THEN response' = Respond("api_history", "404", NothingRead)
       ELSE \E got \in ReadCsv(raw_csv) :
               response' = IF got.raised THEN Respond("api_history", "500", NothingRead)
                           ELSE Respond("api_history", "success", got)
    /\ UNCHANGED <<threads, raw_csv, ranking_csv, update_reply, update_status, reader_pc,
                   notServer>>

(***************************************************************************)
(* The inputs of the planner                                               *)
(***************************************************************************)

\* The days datetime.date.today() is drawn from.
FirstYear == 2023
YearSpan == 2

Dates ==
    {dt \in [y : FirstYear..(FirstYear + YearSpan), m : 1..12, d : 1..31] :
        dt.d <= DaysInMonth(dt.y, dt.m)}

NoDate == [y |-> 0, m |-> 0, d |-> 0]

\* lines 103-113 as one step
Plan ==
    /\ tasks = <<>>
    /\ end_date # NoDate
    /\ months' = Months(end_date)
    /\ tasks' = Tasks(months')
    /\ UNCHANGED <<end_date, notPlanner>>

(***************************************************************************)
(* The specifications                                                      *)
(***************************************************************************)

PlannerOff == end_date = NoDate /\ months = <<>> /\ tasks = <<>>

ParserOff ==
    parser_pc = "off" /\ xml_data = NoneText /\ district_name = None /\ parsed = <<>>

AggOff == agg_pc = "off" /\ df = <<>> /\ grouped = <<>>

RunOff ==
    /\ API_KEY = FALSE /\ run_pc = "off" /\ futures = <<>> /\ consumed = {}
    /\ all_dfs = <<>> /\ full_df = <<>> /\ raw_file = Absent /\ ranking_file = Absent
    /\ io_fault = "none" /\ result = NoResult

ServerOff ==
    /\ threads = <<>> /\ raw_csv = NoFile /\ ranking_csv = NoFile /\ update_reply = NoReply
    /\ update_status = IdleStatus
    /\ reader_pc = "off" /\ response = NoResponse

InitPlanner ==
    /\ end_date \in Dates
    /\ months = <<>>
    /\ tasks = <<>>
    /\ ParserOff /\ AggOff /\ RunOff /\ ServerOff

NextPlanner == Plan

SpecPlanner == InitPlanner /\ [][NextPlanner]_vars

InitParser ==
    /\ parser_pc = "call"
    /\ xml_data \in Payloads
    /\ district_name \in {SEOUL_DISTRICTS[1].name, SEOUL_DISTRICTS[23].name}
    /\ parsed = <<>>
    /\ PlannerOff /\ AggOff /\ RunOff /\ ServerOff

NextParser == Parse

SpecParser == InitParser /\ [][NextParser]_vars

InitAggregator ==
    /\ agg_pc = "call"
    /\ df \in SeqsUpTo(RowPool, MaxRows)
    /\ grouped = <<>>
    /\ PlannerOff /\ ParserOff /\ RunOff /\ ServerOff

NextAggregator == Analyze

SpecAggregator == InitAggregator /\ [][NextAggregator]_vars

InitRun ==
    /\ API_KEY \in BOOLEAN
    /\ run_pc = "start"
    /\ futures = <<>>
    /\ consumed = {}
    /\ all_dfs = <<>>
    /\ full_df = <<>>
    /\ \E cached \in BOOLEAN :
          /\ raw_file = (IF cached THEN Written(OldRaw) ELSE Absent)
          /\ ranking_file = (IF cached THEN Written(analyze_data(OldRaw)) ELSE Absent)
    /\ io_fault = "none"
    /\ result = NoResult
    /\ PlannerOff /\ ParserOff /\ AggOff /\ ServerOff

NextRun ==
    \/ Submit
    \/ \E t \in 1..NumTasks : Fetch(t)
    \/ \E t \in 1..NumTasks : Consume(t)
    \/ CheckData
    \/ SaveRaw
    \/ SaveRanking

SpecRun == InitRun /\ [][NextRun]_vars

\* The server starts with no thread; the two files are both absent or both
\* deployed with the application.
Init ==
    /\ threads = <<>>
    /\ \E deployed \in BOOLEAN :
          /\ raw_csv = (IF deployed THEN Deployed(MaxRecords) ELSE NoFile)
          /\ ranking_csv = (IF deployed THEN Deployed(MaxRecords) ELSE NoFile)
    /\ update_reply = NoReply
    /\ update_status = IdleStatus
    /\ reader_pc = "idle"
    /\ response = NoResponse
    /\ PlannerOff /\ ParserOff /\ AggOff /\ RunOff

Next ==
    \/ update_data
    \/ \E r \in 1..Len(threads) : Collect(r)
    \/ \E r \in 1..Len(threads) : OpenRaw(r)
    \/ \E r \in 1..Len(threads) : FlushRaw(r)
    \/ \E r \in 1..Len(threads) : CloseRaw(r)
    \/ \E r \in 1..Len(threads) : OpenRanking(r)
    \/ \E r \in 1..Len(threads) : FlushRanking(r)
    \/ \E r \in 1..Len(threads) : CloseRanking(r)
    \/ IndexValidate
    \/ IndexLoad
    \/ ApiValidate
    \/ ApiLoad
    \/ get_apt_history

Spec == Init /\ [][Next]_vars

(***************************************************************************)
(* The claims                                                              *)
(***************************************************************************)

\* The month after a YYYYMM token.
NextToken(tok) == IF tok % 100 = 12 THEN tok + 89 ELSE tok + 1

\* C7: for every today (month ends and Feb 29 included) the month tokens are
\* exactly 37 consecutive months, strictly increasing, ending at today's
\* month, and the task list holds exactly one task per (district, month)
\* pair: districts x 37 entries.
C7_PlannerWindow ==
    tasks # <<>> =>
        /\ Len(months) = 37
        /\ \A i \in 1..(Len(months) - 1) :
              months[i + 1] = NextToken(months[i]) /\ months[i] < months[i + 1]
        /\ months[Len(months)] = end_date.y * 100 + end_date.m
        /\ Len(tasks) = Len(SEOUL_DISTRICTS) * 37
        /\ LET pairs == {<<tasks[k][1], tasks[k][3]>> : k \in 1..Len(tasks)}
           IN  /\ Cardinality(pairs) = Len(tasks)
               /\ pairs = {SEOUL_DISTRICTS[i].code : i \in 1..Len(SEOUL_DISTRICTS)}
                           \X {months[j] : j \in 1..Len(months)}
        /\ \A k \in 1..Len(tasks) :
              \E i \in 1..Len(SEOUL_DISTRICTS) :
                  tasks[k][1] = SEOUL_DISTRICTS[i].code /\ tasks[k][2] = SEOUL_DISTRICTS[i].name

\* A plan made on a leap day, whose start date is clamped to Feb 28.
C7_Witness ==
    /\ tasks # <<>>
    /\ end_date = [y |-> 2024, m |-> 2, d |-> 29]
    /\ months[1] = 202102


\* The items of ItemPool with a field that cannot be converted: an amount
\* that is no whole number (or is blank), an area that is no decimal number.
MalformedItems == {ItemBadAmount, ItemBadArea, ItemBlankAmount}

\* C8: a payload with N well-formed and M malformed items, in any order,
\* parses to exactly N records, those of the well-formed items in document
\* order; an empty or unparsable payload parses to the empty sequence.
C8_ItemIsolation ==
    parser_pc = "return" =>
        IF xml_data.kind = "text" /\ xml_data.wellformed
        THEN LET good == SelectSeq(xml_data.items, LAMBDA it : it \notin MalformedItems)
             IN  /\ Len(parsed) = Len(good)
                 /\ \A i \in 1..Len(good) :
                       /\ parsed[i].district = district_name
                       /\ parsed[i].year = good[i].dealYear
                       /\ parsed[i].floor = (IF Truthy(good[i].floor) THEN good[i].floor ELSE <<"0">>)
        ELSE parsed = <<>>

\* A payload whose first and last items are malformed and whose middle item
\* is well-formed has been parsed to one record.
C8_Witness ==
    /\ parser_pc = "return"
    /\ xml_data = Xml(<<ItemBadAmount, ItemFull, ItemBadArea>>)
    /\ Len(parsed) = 1
    /\ parsed[1].amount = 82500

\* The price tier and area band of the specification: lower bounds
\* inclusive, upper bounds exclusive; the area is in hundredths.
SpecTier(q) ==
    CASE q.num < 100000 * q.den -> "T1"
      [] q.num >= 100000 * q.den /\ q.num < 150000 * q.den -> "T2"
      [] q.num >= 150000 * q.den /\ q.num < 200000 * q.den -> "T3"
      [] OTHER -> "T4"

SpecBand(a) ==
    CASE a < 5000 -> 10
      [] a >= 5000 /\ a < 7000 -> 20
      [] a >= 7000 /\ a < 10200 -> 30
      [] a >= 10200 /\ a < 13500 -> 40
      [] OTHER -> 50

\* C9: every ranking record carries the price tier of its mean price and the
\* area-band code of its floor area (tier(149999) = T2, tier(150000) = T3,
\* band(101.9) = 30, band(102.0) = 40).
C9_TierAndBand ==
    agg_pc = "return" =>
        \A i \in 1..Len(grouped) :
            /\ "price_tier" \in DOMAIN grouped[i]
            /\ grouped[i].price_tier = SpecTier(grouped[i].mean)
            /\ "area_band" \in DOMAIN grouped[i]
            /\ grouped[i].area_band = SpecBand(grouped[i].area)

RECURSIVE SumCount(_)
SumCount(g) == IF g = <<>> THEN 0 ELSE Head(g).count + SumCount(Tail(g))

\* C10: every record analyze_data is given is counted in exactly one bucket:
\* every bucket has count >= 1 and the counts sum to the number of records.
C10_RecordConservation ==
    agg_pc = "return" =>
        /\ \A i \in 1..Len(grouped) : grouped[i].count >= 1
        /\ SumCount(grouped) = Len(df)

\* A task's fetch fails when there is no credential, the request raises
\* (timeout, I/O error) or the status is not 200.
Failed(t) ==
    \/ ~API_KEY
    \/ futures[t].http.kind # "response"
    \/ futures[t].http.status_code # 200

\* The records task t contributes: those of its response text, none when
\* its fetch failed.
Yield(t) ==
    IF Failed(t) THEN <<>> ELSE parse_xml_to_df(futures[t].http.text, RunTasks[t][2])

RECURSIVE TotalYield(_)
TotalYield(n) == IF n = 0 THEN 0 ELSE Len(Yield(n)) + TotalYield(n - 1)

\* C4: a finished run is the Error "collection failed" when no raw record
\* was produced across all tasks, an Error carrying the cause when writing
\* the cache failed, and otherwise a Success reporting the number of raw
\* records, with both artifacts written; there is no other outcome.
C4_RunOutcome ==
    run_pc = "done" =>
        LET n == TotalYield(NumTasks)
        IN  /\ result.kind \in {"collect_failed", "processing_error", "completed"}
            /\ n = 0 => result = CollectFailed
            /\ (n > 0 /\ io_fault # "none") => result = ProcessingError(io_fault)
            /\ (n > 0 /\ io_fault = "none") =>
                  /\ result = Completed(n)
                  /\ raw_file = Written(full_df) /\ Len(full_df) = n
                  /\ ranking_file = Written(analyze_data(full_df))

\* A run of two tasks that produced two records has ended in Success.
C4_Witness == run_pc = "done" /\ result = Completed(2) /\ Len(raw_file.rows) = 2

Occurrences(r, q) == Cardinality({i \in 1..Len(q) : q[i] = r})

\* The parts of C5 that do not depend on when the zero-data Error arises:
\* a failing task yields absent and no exception; past the loop every task
\* has been fetched and handed over; the RAW dataset holds exactly the
\* records of the tasks, each as often as the tasks yield it, and so does
\* the RAW artifact once it is written.
FetchIsolation ==
    /\ \A t \in 1..Len(futures) :
          futures[t] # Pending =>
              /\ ~futures[t].outcome.raised
              /\ Failed(t) => futures[t].outcome.value = NoneText
    /\ run_pc \in {"save_raw", "save_ranking", "done"} =>
          \A t \in 1..NumTasks : futures[t] # Pending /\ t \in consumed
    /\ (run_pc \in {"save_ranking", "done"} /\ full_df # <<>>) =>
          /\ \A t \in 1..NumTasks : \A i \in 1..Len(Yield(t)) :
                LET r == Yield(t)[i]
                IN  Occurrences(r, full_df) =
                        Occurrences(r, Concat([u \in 1..NumTasks |-> Yield(u)]))
          /\ Len(full_df) = TotalYield(NumTasks)
          /\ io_fault \notin {"raw_open", "raw_write"} => raw_file = Written(full_df)

\* C5 as stated: ... and the run ends in the zero-data Error only if all
\* tasks fail.
C5_ZeroDataOnlyIfAllFail ==
    /\ FetchIsolation
    /\ (run_pc = "done" /\ result = CollectFailed) => \A t \in 1..NumTasks : Failed(t)

\* C5 as amended: whatever tasks fail (missing credential, non-200 status,
\* timeout, I/O error), a failing task yields absent rather than an
\* exception, every other task is still fetched and its records reach the
\* RAW dataset, and the run ends in the zero-data Error exactly when no task
\* yields a record: each task either failed or returned a text that parses
\* to no record.
C5_FetchIsolation ==
    /\ FetchIsolation
    /\ run_pc = "done" =>
          (result = CollectFailed <=> \A t \in 1..NumTasks : Yield(t) = <<>>)

\* One task timed out, another returned one record, and the run ended in
\* Success with that record in the RAW artifact.
C5_Witness ==
    /\ run_pc = "done"
    /\ \E t, u \in 1..NumTasks :
          /\ Failed(t) /\ futures[t].http.kind = "timeout"
          /\ ~Failed(u) /\ Len(Yield(u)) = 1
          /\ result = Completed(1)
          /\ raw_file.rows = Yield(u)

ActiveThreads == {r \in 1..Len(threads) : Active(threads[r])}

\* C1: at most one pipeline execution is active at any time, and a
\* POST /update issued while a run is in progress is answered with a
\* rejection.
C1_SingleFlight ==
    /\ Cardinality(ActiveThreads) <= 1
    /\ update_reply.while_running => update_reply.status = "rejected"

\* C2: the status is running, with the message "in progress", exactly while
\* a pipeline run is active; once a started run has ended it is not running
\* and its message is "success" or an error.
C2_StatusLifecycle ==
    /\ update_status.running <=> ActiveThreads # {}
    /\ update_status.running => update_status.message = "in progress"
    /\ (threads # <<>> /\ ActiveThreads = {}) => update_status.message \in {"success", "error"}
    /\ threads = <<>> => update_status = [running |-> FALSE, message |-> ""]

\* C3: a run writes RAW before RANKING, the RANKING file never comes from a
\* newer run than the RAW file, and once no run is in progress the two come
\* from the same run.
C3_PairConsistency ==
    /\ \A r \in 1..Len(threads) :
          (ranking_csv.exists /\ ranking_csv.writer = r) =>
              threads[r].pc \in {"ranking_open", "ranking_partial", "done"}
    /\ (ranking_csv.exists /\ raw_csv.exists) => ranking_csv.writer <= raw_csv.writer
    /\ (ranking_csv.exists /\ ActiveThreads = {}) =>
          raw_csv.exists /\ ranking_csv.writer = raw_csv.writer

\* C6: whatever a run is doing to the files, a reader answers with a
\* complete dataset or with an explicit not-available / not-found / error
\* result, never with part of a dataset presented as data.
C6_ReaderTolerance ==
    /\ response.kind \in {"none", "no_data_page", "error_text", "page", "404", "500", "success"}
    /\ response.kind \in {"page", "success"} => response.whole
====
